---- MODULE Spec2Model ----
(***************************************************************************)
(* Model of the League queue assistant's event loop (src/main.rs, main).   *)
(* One websocket event is handled at a time.  The handler of a draft       *)
(* session snapshot suspends at every action submission (PATCH) made by    *)
(* the ban and pick loops, so each loop iteration is one step of the       *)
(* model; everything between two submissions is computed atomically.       *)
(* Cursors are 0-based as in the source; a sequence is read at cursor + 1. *)
(* An absent JSON field is the empty sequence, a present one <<value>>.    *)
(***************************************************************************)
EXTENDS Integers, Sequences, FiniteSets, TLC

(* ---- bounds ---- *)
MaxLen == 2
MaxActions == 2
CountCap == MaxLen + 1      \* the observation counters saturate here

(* ---- Option values (serde_json as_*() results, HashMap::get) ---- *)
None == <<>>
Some(v) == <<v>>

(* ---- champions ---- *)
(* names a config.toml may list; the client's champion table knows two of them *)
Names == {"Ahri", "Zed", "Teemo"}
TableNames == {"Ahri", "Zed"}
ChampionId(name) == IF name = "Ahri" THEN 103 ELSE IF name = "Zed" THEN 238 ELSE 17

(* picks / bans of config.toml: non-empty, ordered, without repetition *)
NameLists ==
    UNION {{l \in [1..n -> Names] : \A i, j \in 1..n : l[i] = l[j] => i = j} : n \in 1..MaxLen}
ChampionTables == {[n \in TableNames |-> ChampionId(n)]}

(* champions_map.get(&name) *)
Lookup(map, name) == IF name \in DOMAIN map THEN Some(map[name]) ELSE None

(* ---- draft session snapshots ---- *)
LocalCell == 0
OtherCell == 1

Phases == {"PLANNING", "BAN_PICK", "FINALIZATION", "GAME_STARTING"}

Teammate(cell, pos) == [cellId |-> cell, assignedPosition |-> pos]

(* a ban that is over: this champion is banned *)
DoneBan(cell, name) ==
    [id |-> 1, actorCellId |-> cell, type |-> "ban",
     championId |-> ChampionId(name), completed |-> TRUE, isInProgress |-> Some(FALSE)]
MyAction(t) ==
    [id |-> IF t = "ban" THEN 2 ELSE 3, actorCellId |-> LocalCell,
     type |-> t, championId |-> 0, completed |-> FALSE, isInProgress |-> Some(TRUE)]
NoProgressAction ==
    [id |-> 5, actorCellId |-> LocalCell, type |-> "pick",
     championId |-> 0, completed |-> FALSE, isInProgress |-> None]

ActionKinds ==
    {DoneBan(OtherCell, "Ahri"), DoneBan(LocalCell, "Zed"), MyAction("ban"), MyAction("pick")}
(* the draft protocol has at most one local in-progress action per snapshot *)
InProgressCount(l) == Cardinality({i \in 1..Len(l) : l[i].isInProgress = Some(TRUE)})
ActionLists ==
    UNION {{l \in [1..n -> ActionKinds] : InProgressCount(l) <= 1} : n \in 0..MaxActions}

(* actions[][]: the first action in a group of its own, the others in a second group *)
Grouped(list) ==
    IF list = <<>> THEN <<>>
    ELSE IF Len(list) = 1 THEN <<list>>
    ELSE <<<<Head(list)>>, Tail(list)>>
ActionGroups == {Grouped(l) : l \in ActionLists}

WellFormedSnapshots ==
    [localPlayerCellId : {Some(LocalCell)},
     phase : {Some(p) : p \in Phases},
     myTeam : {Some(<<Teammate(LocalCell, Some("middle"))>>)},
     actions : {Some(g) : g \in ActionGroups}]

NullPayload == [localPlayerCellId |-> None, phase |-> None, myTeam |-> None, actions |-> None]

BaseSnapshots ==
    {s \in WellFormedSnapshots : s.actions \in {Some(<<>>), Some(<<<<MyAction("ban")>>>>)}}

MalformedSnapshots ==
    {NullPayload}
    \cup {[s EXCEPT !.phase = None] : s \in BaseSnapshots}
    \cup {[s EXCEPT !.myTeam = None] : s \in BaseSnapshots}
    \cup {[s EXCEPT !.myTeam = Some(<<Teammate(LocalCell, None)>>)] : s \in BaseSnapshots}
    \cup {[s EXCEPT !.actions = None] : s \in BaseSnapshots}
    \cup {[s EXCEPT !.actions = Some(<<<<NoProgressAction>>>>)] : s \in BaseSnapshots}

(* a roster without the local player, or empty, is well-formed too *)
OtherTeamSnapshots ==
    {[s EXCEPT !.myTeam = t] : s \in BaseSnapshots,
                               t \in {Some(<<>>), Some(<<Teammate(OtherCell, None)>>)}}

Snapshots == WellFormedSnapshots \cup OtherTeamSnapshots \cup MalformedSnapshots

(* ---- live client telemetry: gameTime in tenths of a second ---- *)
Telemetry ==
    {[sent |-> FALSE, success |-> FALSE, gameTime |-> None],
     [sent |-> TRUE, success |-> FALSE, gameTime |-> None],
     [sent |-> TRUE, success |-> TRUE, gameTime |-> None],
     [sent |-> TRUE, success |-> TRUE, gameTime |-> Some(0)],
     [sent |-> TRUE, success |-> TRUE, gameTime |-> Some(124)]}

VARIABLES
    config,                 \* [picks, bans], read once from config.toml
    champions_map,          \* name -> id
    pick_number, ban_number, am_i_assigned, am_i_picking, am_i_banning,
    have_i_prepicked, in_game, action_id,
    running,                \* the AtomicBool
    pc,                     \* "recv", "ban_loop", "pick_loop", "sleep", "exited", "panicked"
    local_player_cell_id,   \* handler local, kept across the loops' suspensions
    phase,                  \* handler local: phase of the snapshot, as Option
    rest,                   \* actions of the snapshot not yet scanned
    lastReq,                \* observation: last request issued for the current event
    nreq,                   \* observation: submissions issued for the current event
    iters,                  \* observation: iterations of the current ban/pick loop
    bannedChampions,        \* observation: ids of completed bans in the snapshot
    curAction,              \* observation: id of the snapshot's local in-progress action
    curType,                \* observation: type of that action
    wellFormed,             \* observation: the snapshot has every field the handler reads
    lastPoll,               \* observation: the telemetry poll made for the snapshot
    lastEvent,              \* observation: the event being handled
    hadPrepicked            \* observation: have_i_prepicked when the event arrived

vars == <<config, champions_map, pick_number, ban_number, am_i_assigned, am_i_picking,
          am_i_banning, have_i_prepicked, in_game, action_id, running, pc,
          local_player_cell_id, phase, rest, lastReq, nreq, iters, bannedChampions,
          curAction, curType, wellFormed, lastPoll, lastEvent, hadPrepicked>>

(* the mutable part of the state as one record, threaded through the handler *)
Machine ==
    [pick_number |-> pick_number, ban_number |-> ban_number,
     am_i_assigned |-> am_i_assigned, am_i_picking |-> am_i_picking,
     am_i_banning |-> am_i_banning, have_i_prepicked |-> have_i_prepicked,
     in_game |-> in_game, action_id |-> action_id, running |-> running, pc |-> pc,
     local_player_cell_id |-> local_player_cell_id, phase |-> phase, rest |-> rest,
     lastReq |-> lastReq, nreq |-> nreq, iters |-> iters,
     bannedChampions |-> bannedChampions, curAction |-> curAction,
     curType |-> curType, wellFormed |-> wellFormed,
     lastPoll |-> lastPoll, lastEvent |-> lastEvent,
     hadPrepicked |-> hadPrepicked]

Apply(m) ==
    /\ pick_number' = m.pick_number
    /\ ban_number' = m.ban_number
    /\ am_i_assigned' = m.am_i_assigned
    /\ am_i_picking' = m.am_i_picking
    /\ am_i_banning' = m.am_i_banning
    /\ have_i_prepicked' = m.have_i_prepicked
    /\ in_game' = m.in_game
    /\ action_id' = m.action_id
    /\ running' = m.running
    /\ pc' = m.pc
    /\ local_player_cell_id' = m.local_player_cell_id
    /\ phase' = m.phase
    /\ rest' = m.rest
    /\ lastReq' = m.lastReq
    /\ nreq' = m.nreq
    /\ iters' = m.iters
    /\ bannedChampions' = m.bannedChampions
    /\ curAction' = m.curAction
    /\ curType' = m.curType
    /\ wellFormed' = m.wellFormed
    /\ lastPoll' = m.lastPoll
    /\ lastEvent' = m.lastEvent
    /\ hadPrepicked' = m.hadPrepicked
    /\ UNCHANGED <<config, champions_map>>

Init ==
    /\ config \in [picks : NameLists, bans : NameLists]
    /\ champions_map \in ChampionTables
    /\ pick_number = 0
    /\ ban_number = 0
    /\ am_i_assigned = FALSE
    /\ am_i_picking = FALSE
    /\ am_i_banning = FALSE
    /\ have_i_prepicked = FALSE
    /\ in_game = FALSE
    /\ action_id = 0
    /\ running = TRUE
    /\ pc = "recv"
    /\ local_player_cell_id = 0
    /\ phase = None
    /\ rest = <<>>
    /\ lastReq = None
    /\ nreq = 0
    /\ iters = 0
    /\ bannedChampions = {}
    /\ curAction = None
    /\ curType = None
    /\ wellFormed = TRUE
    /\ lastPoll = None
    /\ lastEvent = None
    /\ hadPrepicked = FALSE

(* ---- requests ---- *)
Bump(n) == IF n < CountCap THEN n + 1 ELSE n

(* lcu.patch(".../actions/{action_id}", {championId, completed}) with its outcome *)
Patch(m, list, idx, champion_id, completed, ok) ==
    [m EXCEPT !.lastReq = Some([verb |-> "PATCH", actionId |-> m.action_id,
                                championId |-> champion_id, completed |-> completed,
                                ok |-> ok, list |-> list, idx |-> idx]),
              !.nreq = Bump(m.nreq)]

(* lcu.post(".../ready-check/accept", None) with its outcome *)
PostAccept(m, ok) ==
    [m EXCEPT !.lastReq = Some([verb |-> "POST", actionId |-> 0, championId |-> 0,
                                completed |-> FALSE, ok |-> ok, list |-> "none",
                                idx |-> 0])]

(* an unwrap() on None or an index out of bounds: the process dies *)
Panic(m) == [m EXCEPT !.pc = "panicked"]

(* an event arrives: the observations start afresh *)
NewEvent(m) == [m EXCEPT !.hadPrepicked = m.have_i_prepicked]

(* data["uri"], and for a ready check data["data"]["state"] / ["playerResponse"] *)
Event(uri, state, playerResponse) ==
    [uri |-> uri, state |-> state, playerResponse |-> playerResponse]
ReadyCheckUri == "/lol-matchmaking/v1/ready-check"
SessionUri == "/lol-champ-select/v1/session"
OtherUri == "/lol-gameflow/v1/session"
Observe(m, ev) == [m EXCEPT !.lastEvent = Some(ev)]

(* the handler is done: tokio::time::sleep at the end of the loop body *)
LoopEnd(m) == [m EXCEPT !.pc = "sleep"]

(* the sleep is over, the handler's locals are gone: while running.load() *)
LoopTop(m) ==
    [m EXCEPT !.pc = IF m.running THEN "recv" ELSE "exited",
              !.local_player_cell_id = 0, !.phase = None, !.rest = <<>>,
              !.lastReq = None, !.nreq = 0, !.iters = 0,
              !.bannedChampions = {}, !.curAction = None, !.wellFormed = TRUE,
              !.curType = None, !.lastPoll = None, !.lastEvent = None,
              !.hadPrepicked = FALSE]

(* ---- session interpretation ---- *)
RECURSIVE Flatten(_)
(* for action_list in actions { for action in action_list { ... } } *)
Flatten(groups) ==
    IF groups = <<>> THEN <<>> ELSE Head(groups) \o Flatten(Tail(groups))

(* the spec's bannedChampions: championId of every completed ban action *)
BannedOf(list) ==
    {list[i].championId : i \in {j \in 1..Len(list) : list[j].type = "ban" /\ list[j].completed}}

RECURSIVE TeamScan(_, _)
(* for teammate in myTeam: the local player's assignedPosition is unwrapped *)
TeamScan(m, team) ==
    IF team = <<>> THEN m
    ELSE IF Head(team).cellId = m.local_player_cell_id
         THEN IF Head(team).assignedPosition = None
              THEN Panic(m)
              ELSE TeamScan([m EXCEPT !.am_i_assigned = TRUE], Tail(team))
         ELSE TeamScan(m, Tail(team))

TakeAction_KeepsId(m, a) ==
    [m EXCEPT !.curAction = Some(a.id),
              !.curType = Some(a.type),
              !.am_i_banning = IF a.type = "ban" THEN a.isInProgress[1] ELSE @,
              !.am_i_picking = IF a.type = "pick" THEN a.isInProgress[1] ELSE @]
(* action_id = id; am_i_banning / am_i_picking set from the action's type *)
TakeAction(m, a) ==
    [m EXCEPT !.action_id = a.id,
              !.curAction = Some(a.id),
              !.curType = Some(a.type),
              !.am_i_banning = IF a.type = "ban" THEN a.isInProgress[1] ELSE @,
              !.am_i_picking = IF a.type = "pick" THEN a.isInProgress[1] ELSE @]

RECURSIVE ScanActions(_)
(* the action scan up to the next ban or pick loop, a panic, or its end *)
ScanActions(m) ==
    IF m.rest = <<>> THEN [m EXCEPT !.pc = "scanned"]
    ELSE LET a == Head(m.rest)
             m1 == [m EXCEPT !.rest = Tail(m.rest)]
         IN  IF a.actorCellId # m.local_player_cell_id THEN ScanActions(m1)
             ELSE IF a.isInProgress = None THEN Panic(m1)
             ELSE IF ~a.isInProgress[1] THEN ScanActions(m1)
             ELSE LET m2 == TakeAction(m1, a)
                  IN  IF a.type = "ban" /\ m2.phase = Some("BAN_PICK") /\ m2.am_i_banning
                      THEN [m2 EXCEPT !.pc = "ban_loop", !.iters = 0]
                      ELSE IF a.type = "pick" /\ m2.phase = Some("BAN_PICK") /\ m2.am_i_picking
                      THEN [m2 EXCEPT !.pc = "pick_loop", !.iters = 0]
                      ELSE ScanActions(m2)

(* ---- planning pre-pick ---- *)
PrePickDone_IgnoresOutcome(m, ok) == [m EXCEPT !.have_i_prepicked = TRUE]
PrePickDone(m, ok) == IF ok THEN [m EXCEPT !.have_i_prepicked = TRUE] ELSE m

PrePick(m, ok) ==
    IF m.phase = Some("PLANNING") /\ ~m.have_i_prepicked
    THEN LET champion_id == Lookup(champions_map, config.picks[1])
         IN  IF champion_id # None
             THEN PrePickDone(Patch(m, "picks", 0, champion_id[1], FALSE, ok), ok)
             ELSE m
    ELSE m

(* ---- game start ---- *)
GameStarted_KeepsRunning(m) == [m EXCEPT !.in_game = TRUE]
GameStarted(m) == [m EXCEPT !.in_game = TRUE, !.running = FALSE]

(* the GET of liveclientdata/allgamedata is made for a FINALIZATION snapshot *)
Poll(m, tel) == [m EXCEPT !.lastPoll = Some(tel)]

GameStartCheck_ZeroCounts(m0, tel) ==
    IF m0.phase # Some("FINALIZATION") THEN m0
    ELSE LET m == Poll(m0, tel)
         IN  IF tel.sent /\ tel.success
             THEN IF tel.gameTime = None THEN Panic(m)
                  ELSE IF tel.gameTime[1] >= 0 /\ ~m.in_game THEN GameStarted(m)
                  ELSE m
             ELSE m
GameStartCheck(m0, tel) ==
    IF m0.phase # Some("FINALIZATION") THEN m0
    ELSE LET m == Poll(m0, tel)
         IN  IF tel.sent /\ tel.success
             THEN IF tel.gameTime = None THEN Panic(m)
                  ELSE IF tel.gameTime[1] > 0 /\ ~m.in_game THEN GameStarted(m)
                  ELSE m
             ELSE m

(* what follows the action scan: pre-pick, game start check, end of iteration *)
Finish(m, ok, tel) ==
    IF m.pc # "scanned" THEN m
    ELSE LET m1 == GameStartCheck(PrePick(m, ok), tel)
         IN  IF m1.pc = "panicked" THEN m1 ELSE LoopEnd(m1)

ResetPrepick_Missing(m) == m
(* have_i_prepicked = false at the start of every snapshot *)
ResetPrepick(m) == [m EXCEPT !.have_i_prepicked = FALSE]

(* Some("/lol-champ-select/v1/session") up to its first suspension in a loop *)
Session(m0, s, ok, tel) ==
    LET m == [m0 EXCEPT !.wellFormed = s \notin MalformedSnapshots] IN
    IF s.localPlayerCellId = None \/ s.phase = None THEN Panic(m)
    ELSE LET m1 == ResetPrepick([m EXCEPT !.local_player_cell_id = s.localPlayerCellId[1],
                                           !.phase = s.phase])
         IN  IF s.myTeam = None THEN Panic(m1)
             ELSE LET m2 == TeamScan(m1, s.myTeam[1])
                  IN  IF m2.pc = "panicked" THEN m2
                      ELSE IF s.actions = None THEN Panic(m2)
                      ELSE LET flat == Flatten(s.actions[1])
                           IN  Finish(ScanActions([m2 EXCEPT !.rest = flat,
                                                              !.bannedChampions = BannedOf(flat),
                                                              !.curAction = None,
                                                              !.curType = None]),
                                      ok, tel)

(* ---- ban loop: one iteration of while am_i_banning ---- *)
BanSuccess_SkipsTwo(m) == [m EXCEPT !.ban_number = @ + 2, !.am_i_banning = FALSE]
BanSuccess(m) == [m EXCEPT !.ban_number = @ + 1, !.am_i_banning = FALSE]
BanFailure(m) == m
BanMiss_NoWrap(m) == [m EXCEPT !.ban_number = @ + 1]
BanMiss(m) == [m EXCEPT !.ban_number = (@ + 1) % Len(config.bans)]

BanIteration(m, ok) ==
    IF m.ban_number >= Len(config.bans) THEN Panic(m)
    ELSE LET champion_id == Lookup(champions_map, config.bans[m.ban_number + 1])
             m1 == [m EXCEPT !.iters = Bump(@)]
         IN  IF champion_id # None
             THEN LET m2 == Patch(m1, "bans", m.ban_number, champion_id[1], TRUE, ok)
                  IN  IF ok THEN BanSuccess(m2) ELSE BanFailure(m2)
             ELSE BanMiss(m1)

(* ---- pick loop: one iteration of while am_i_picking ---- *)
PickSuccess(m) == [m EXCEPT !.am_i_picking = FALSE]
PickFailure(m) == m
PickMiss(m) == [m EXCEPT !.pick_number = (@ + 1) % Len(config.picks)]

PickIteration(m, ok) ==
    IF m.pick_number >= Len(config.picks) THEN Panic(m)
    ELSE LET champion_id == Lookup(champions_map, config.picks[m.pick_number + 1])
             m1 == [m EXCEPT !.iters = Bump(@)]
         IN  IF champion_id # None
             THEN LET m2 == Patch(m1, "picks", m.pick_number, champion_id[1], TRUE, ok)
                  IN  IF ok THEN PickSuccess(m2) ELSE PickFailure(m2)
             ELSE PickMiss(m1)

NoTelemetry == [sent |-> FALSE, success |-> FALSE, gameTime |-> None]

(* after an iteration: stay in the loop while the flag is set, else scan on *)
AfterIteration(m, flag) ==
    IF m.pc = "panicked" \/ flag THEN m
    ELSE Finish(ScanActions(m), TRUE, NoTelemetry)

(* ---- actions ---- *)
RecvSession ==
    /\ pc = "recv"
    /\ \E s \in Snapshots :
         \E ok \in (IF s.phase = Some("PLANNING") THEN BOOLEAN ELSE {TRUE}) :
           \E tel \in (IF s.phase = Some("FINALIZATION") THEN Telemetry ELSE {NoTelemetry}) :
             Apply(Session(Observe(NewEvent(Machine), Event(SessionUri, "", "")), s, ok, tel))

BanAttempt ==
    /\ pc = "ban_loop"
    /\ \E ok \in BOOLEAN :
         LET m == BanIteration(Machine, ok)
         IN  Apply(AfterIteration(m, m.am_i_banning))

PickAttempt ==
    /\ pc = "pick_loop"
    /\ \E ok \in BOOLEAN :
         LET m == PickIteration(Machine, ok)
         IN  Apply(AfterIteration(m, m.am_i_picking))

ReadyCheck_AcceptsAnyResponse(m, state, playerResponse, ok) ==
    LoopEnd(IF state = "InProgress" THEN PostAccept(m, ok) ELSE m)
(* Some("/lol-matchmaking/v1/ready-check") *)
ReadyCheck(m, state, playerResponse, ok) ==
    LoopEnd(IF state = "InProgress" /\ playerResponse = "None" THEN PostAccept(m, ok) ELSE m)

RecvReadyCheck ==
    /\ pc = "recv"
    /\ \E state \in {"InProgress", "Invalid"}, playerResponse \in {"None", "Accepted"},
          ok \in BOOLEAN :
         Apply(ReadyCheck(Observe(NewEvent(Machine), Event(ReadyCheckUri, state, playerResponse)),
                          state, playerResponse, ok))

(* any other uri: the default arm *)
RecvOther ==
    /\ pc = "recv"
    /\ Apply(LoopEnd(Observe(NewEvent(Machine), Event(OtherUri, "", ""))))

(* a websocket error or a message that is not JSON: continue *)
RecvBadMessage ==
    /\ pc = "recv"
    /\ Apply(LoopTop(NewEvent(Machine)))

Sleep ==
    /\ pc = "sleep"
    /\ Apply(LoopTop(Machine))

Next ==
    \/ RecvSession
    \/ BanAttempt
    \/ PickAttempt
    \/ RecvReadyCheck
    \/ RecvOther
    \/ RecvBadMessage
    \/ Sleep

Spec == Init /\ [][Next]_vars

TypeOK ==
    /\ pc \in {"recv", "ban_loop", "pick_loop", "sleep", "exited", "panicked"}
    /\ ban_number \in 0..MaxLen
    /\ pick_number \in 0..MaxLen
    /\ nreq \in 0..CountCap
    /\ iters \in 0..CountCap

(* ---- properties ---- *)
Sent == lastReq # None
Req == lastReq[1]
Final(list) == Sent /\ Req.verb = "PATCH" /\ Req.completed /\ Req.list = list
Tentative == Sent /\ Req.verb = "PATCH" /\ ~Req.completed

(* C1: on a ban turn a failed submission for the name at banCursor advances
   banCursor by one, so the next attempt of the same snapshot targets the next
   entry and the failed entry is not re-submitted right after its failure. *)
C1_FailedBanAdvancesCursor ==
    (pc = "ban_loop" /\ Final("bans") /\ ~Req.ok) => ban_number = Req.idx + 1

(* C2: the fallback scan of a ban or pick turn makes at most len(list) attempts
   and then stops, whatever the lookup table holds and however submissions end. *)
C2_ScanBoundedByListLength ==
    /\ pc = "ban_loop" => iters < Len(config.bans)
    /\ pc = "pick_loop" => iters < Len(config.picks)

(* C3: on a pick turn no champion is submitted whose id is the championId of a
   completed ban action of the same snapshot. *)
C3_BannedChampionNeverPicked ==
    Final("picks") => Req.championId \notin bannedChampions

(* C4: over well-formed snapshots every read of the ban list or the pick list
   uses an index strictly smaller than the list's length, so the process is
   never terminated by an out-of-bounds read. *)
C4_ListReadsInBounds ==
    /\ pc = "ban_loop" => ban_number < Len(config.bans)
    /\ pc = "pick_loop" => pick_number < Len(config.picks)

(* C5: a draft-session event whose snapshot lacks fields is handled without
   failure: no submission is issued and the loop continues with the next event. *)
C5_MalformedSnapshotContained ==
    ~wellFormed => (pc # "panicked" /\ nreq = 0)

(* C6: while one draft-session snapshot is processed at most one
   action-submission request is issued. *)
C6_AtMostOneSubmissionPerSnapshot ==
    nreq <= 1

(* C7: a tentative submission (completed = false) is issued only for a Planning
   snapshot that contains a local in-progress action; it targets that action's
   id and carries the id of the first entry of the pick list. *)
C7_PrePickTargetsCurrentAction ==
    Tentative =>
        /\ phase = Some("PLANNING")
        /\ curAction # None
        /\ Req.actionId = curAction[1]
        /\ Lookup(champions_map, config.picks[1]) = Some(Req.championId)

(* C8: have_i_prepicked is true during or after the handling of an event only
   when that event is a Planning snapshot whose single pre-pick submission
   succeeded; an event that is no draft-session snapshot never sets it, and a
   Planning snapshot issues at most one submission. *)
C8_PrepickedOnlyBySuccessfulPrePick ==
    /\ [](phase # None /\ have_i_prepicked =>
            phase = Some("PLANNING") /\ Tentative /\ Req.ok /\ nreq = 1)
    /\ [](phase = Some("PLANNING") => nreq <= 1)
    /\ [][phase' = None /\ have_i_prepicked' => have_i_prepicked]_vars

C8_Witness ==
    /\ pc = "sleep" /\ phase = Some("PLANNING")
    /\ ~hadPrepicked /\ have_i_prepicked /\ Tentative /\ Req.ok

(* C9: once a draft-session snapshot whose phase is not Planning has been read,
   have_i_prepicked is false, whatever it was when the snapshot arrived. *)
C9_PrepickedClearedOutsidePlanning ==
    (phase # None /\ phase # Some("PLANNING")) => ~have_i_prepicked

C9_Witness ==
    pc = "sleep" /\ phase = Some("BAN_PICK") /\ hadPrepicked /\ ~have_i_prepicked

(* C10: in_game is terminal: it is set together with running = false, the only
   step taken afterwards ends the loop, and that step issues no request and
   changes no cursor or flag. *)
C10_InGameIsTerminal ==
    /\ [](in_game => ~running /\ pc \in {"sleep", "exited"})
    /\ [](pc = "exited" => in_game /\ ~Sent)
    /\ [][in_game =>
            /\ pc' = "exited"
            /\ ~Sent'
            /\ UNCHANGED <<pick_number, ban_number, am_i_assigned, am_i_picking,
                           am_i_banning, have_i_prepicked, in_game, action_id>>]_vars

C10_Witness ==
    pc = "exited" /\ in_game /\ ~running

(* C11: in_game becomes true only while a Finalization snapshot is processed
   whose telemetry poll succeeded and reported a game time above zero; after a
   failed poll or one reporting 0.0 in_game is still false. *)
Polled == lastPoll # None
PollSaysStarted ==
    /\ Polled /\ lastPoll[1].sent /\ lastPoll[1].success
    /\ lastPoll[1].gameTime # None /\ lastPoll[1].gameTime[1] > 0
C11_InGameOnlyOnPositiveGameTime ==
    /\ [][~in_game /\ in_game' => (phase' = Some("FINALIZATION") /\ PollSaysStarted')]_vars
    /\ [](Polled /\ ~PollSaysStarted => ~in_game)
    /\ [](Polled => phase = Some("FINALIZATION"))

C11_Witness ==
    /\ pc = "sleep" /\ in_game /\ PollSaysStarted /\ lastPoll[1].gameTime = Some(124)

(* C12: on a ban or pick turn a configured name with no entry in the champion
   table is skipped: the iteration issues no submission, the turn's own cursor
   advances by one, wrapping at the end of the list, and the other cursor is
   unchanged. *)
BanNameMissing ==
    /\ pc = "ban_loop" /\ ban_number < Len(config.bans)
    /\ Lookup(champions_map, config.bans[ban_number + 1]) = None
PickNameMissing ==
    /\ pc = "pick_loop" /\ pick_number < Len(config.picks)
    /\ Lookup(champions_map, config.picks[pick_number + 1]) = None
C12_MissingNameSkipped ==
    /\ [][BanNameMissing =>
            /\ ban_number' = (ban_number + 1) % Len(config.bans)
            /\ UNCHANGED <<pick_number, lastReq, nreq>>]_vars
    /\ [][PickNameMissing =>
            /\ pick_number' = (pick_number + 1) % Len(config.picks)
            /\ UNCHANGED <<ban_number, lastReq, nreq>>]_vars

(* the second and last ban was missing from the table: the cursor is back at 0 *)
C12_Witness ==
    /\ pc = "ban_loop" /\ Len(config.bans) = 2 /\ ban_number = 0
    /\ Lookup(champions_map, config.bans[2]) = None
    /\ iters = 1 /\ nreq = 0 /\ ~Sent

(* C13: when every entry of a list of length N has failed in a ban or pick
   turn (failed submission or name missing from the table), the resolution of
   that turn is over, its cursor is 0 and no submission has succeeded. *)
TurnOf(type) == phase = Some("BAN_PICK") /\ curType = Some(type)
C13_ExhaustedListEndsTurnAtZero ==
    /\ (TurnOf("ban") /\ am_i_banning /\ iters >= Len(config.bans)) =>
           (pc = "sleep" /\ ban_number = 0)
    /\ (TurnOf("pick") /\ am_i_picking /\ iters >= Len(config.picks)) =>
           (pc = "sleep" /\ pick_number = 0)

(* C14: a submission with completed = true is only issued for a BAN_PICK
   snapshot and targets the id of that snapshot's local in-progress action,
   whose type is ban or pick; the champion id is the table's id of the entry of
   the ban list (ban action) or pick list (pick action) at the cursor used.  No
   submission at all is issued for a Finalization snapshot. *)
ListOf(type) == IF type = "ban" THEN config.bans ELSE config.picks
FinalFor(type, list) ==
    Final(list) =>
        /\ phase = Some("BAN_PICK")
        /\ curAction = Some(Req.actionId)
        /\ curType = Some(type)
        /\ Req.idx < Len(ListOf(type))
        /\ Lookup(champions_map, ListOf(type)[Req.idx + 1]) = Some(Req.championId)
C14_FinalSubmissionTargetsOwnTurn ==
    /\ FinalFor("ban", "bans")
    /\ FinalFor("pick", "picks")
    /\ (Sent /\ Req.completed) => Req.list \in {"bans", "picks"}
    /\ phase = Some("FINALIZATION") => (~Sent /\ nreq = 0)

(* the second pick of the list went through on a pick turn *)
C14_Witness ==
    /\ pc = "sleep" /\ Final("picks") /\ Req.ok /\ Req.idx = 1
    /\ curType = Some("pick") /\ ~am_i_picking

(* C15: in every reachable state 0 <= ban_number <= len(bans) and
   0 <= pick_number <= len(picks). *)
C15_CursorsWithinLists ==
    /\ 0 <= ban_number /\ ban_number <= Len(config.bans)
    /\ 0 <= pick_number /\ pick_number <= Len(config.picks)

(* the last ban of the list went through: the ban cursor sits at len(bans) *)
C15_Witness ==
    /\ pc = "sleep" /\ Final("bans") /\ Req.ok
    /\ Len(config.bans) = 2 /\ ban_number = Len(config.bans)

(* ---- a whole turn as a function of the submission outcomes ---- *)
OutcomeSeqs == UNION {[1..n -> BOOLEAN] : n \in 1..CountCap}

TurnResult(ids, cursor, over, panicked) ==
    [ids |-> ids, cursor |-> cursor, over |-> over, panicked |-> panicked]

RECURSIVE RunBan(_, _, _)
(* while am_i_banning, one outcome per iteration: the champion ids submitted *)
RunBan(m, outs, ids) ==
    IF outs = <<>> \/ ~m.am_i_banning
    THEN TurnResult(ids, m.ban_number, ~m.am_i_banning, FALSE)
    ELSE LET m1 == BanIteration([m EXCEPT !.lastReq = None], Head(outs))
             ids1 == IF m1.lastReq = None THEN ids
                     ELSE Append(ids, m1.lastReq[1].championId)
         IN  IF m1.pc = "panicked" THEN TurnResult(ids1, m1.ban_number, FALSE, TRUE)
             ELSE RunBan(m1, Tail(outs), ids1)

RECURSIVE RunPick(_, _, _)
(* while am_i_picking, one outcome per iteration: the champion ids submitted *)
RunPick(m, outs, ids) ==
    IF outs = <<>> \/ ~m.am_i_picking
    THEN TurnResult(ids, m.pick_number, ~m.am_i_picking, FALSE)
    ELSE LET m1 == PickIteration([m EXCEPT !.lastReq = None], Head(outs))
             ids1 == IF m1.lastReq = None THEN ids
                     ELSE Append(ids, m1.lastReq[1].championId)
         IN  IF m1.pc = "panicked" THEN TurnResult(ids1, m1.pick_number, FALSE, TRUE)
             ELSE RunPick(m1, Tail(outs), ids1)

(* C16: with no champion banned, the same list, the same starting cursor, the
   same table and the same submission outcomes, a pick turn submits the same
   champion ids as a ban turn and leaves its cursor at the same value. *)
TurnStarts == pc \in {"ban_loop", "pick_loop"} /\ iters = 0
C16_PickTurnMirrorsBanTurn ==
    (/\ TurnStarts /\ bannedChampions = {}
     /\ config.picks = config.bans /\ pick_number = ban_number) =>
        \A outs \in OutcomeSeqs :
            LET b == RunBan([Machine EXCEPT !.am_i_banning = TRUE], outs, <<>>)
                p == RunPick([Machine EXCEPT !.am_i_picking = TRUE], outs, <<>>)
            IN  b.ids = p.ids /\ b.cursor = p.cursor

(* ---- progress ---- *)
(* A handler that has started runs on: every await in it completes.  The push
   channel owes the loop nothing, but here it keeps delivering events of other
   topics, so that a run in which the loop stays up is not one in which the
   channel merely went quiet. *)
FairSpec ==
    /\ Spec
    /\ WF_vars(BanAttempt)
    /\ WF_vars(PickAttempt)
    /\ WF_vars(Sleep)
    /\ WF_vars(RecvOther)

(* C17: if from some point on every telemetry poll succeeds and reports a game
   time above zero, then eventually in_game is set and the loop has ended,
   whatever the push channel delivers.  Runs in which the process dies on an
   unwrap or never leaves a ban or pick loop are set aside. *)
C17_ExitsOnceMatchBegun ==
    (/\ [](pc # "panicked")
     /\ []<>(pc \notin {"ban_loop", "pick_loop"})
     /\ <>[](Polled => PollSaysStarted))
        => <>(in_game /\ pc = "exited")

(* C18: a ready-check acceptance is issued for an event exactly when it is a
   ready-check event with state InProgress and playerResponse None; handling a
   ready-check event, accepted or not, successfully or not, changes no cursor
   and no flag; an event of any other topic than ready-check and draft session
   causes no request and no state change. *)
Handling(uri) == lastEvent # None /\ lastEvent[1].uri = uri
Accepted == Sent /\ Req.verb = "POST"
ToAccept ==
    /\ Handling(ReadyCheckUri)
    /\ lastEvent[1].state = "InProgress" /\ lastEvent[1].playerResponse = "None"
C18_ReadyCheckAcceptedStateUntouched ==
    /\ [](lastEvent # None => (Accepted <=> ToAccept))
    /\ [](lastEvent = None => ~Accepted)
    /\ [](Handling(OtherUri) \/ Handling(ReadyCheckUri) => (nreq = 0 /\ pc = "sleep"))
    /\ [](Handling(OtherUri) => ~Sent)
    /\ [][Handling(OtherUri)' \/ Handling(ReadyCheckUri)' =>
            UNCHANGED <<pick_number, ban_number, am_i_assigned, am_i_picking,
                        am_i_banning, have_i_prepicked, in_game, action_id, running>>]_vars

(* an acceptance that failed *)
C18_Witness ==
    pc = "sleep" /\ ToAccept /\ Accepted /\ ~Req.ok

(* C19: for every Planning snapshot handled to its end in which the first
   pick-list name is in the champion table, exactly one tentative submission is
   attempted, also when a pre-pick had already succeeded before the snapshot
   arrived: have_i_prepicked never suppresses a pre-pick. *)
C19_PrePickOnEveryPlanningSnapshot ==
    (/\ pc = "sleep" /\ phase = Some("PLANNING")
     /\ Lookup(champions_map, config.picks[1]) # None) =>
        (Tentative /\ nreq = 1)

(* a pre-pick had succeeded before, and the next Planning snapshot pre-picks again *)
C19_Witness ==
    /\ pc = "sleep" /\ phase = Some("PLANNING") /\ hadPrepicked
    /\ Tentative /\ nreq = 1

====
